---- MODULE Spec2Model ----
(***************************************************************************)
(* A model of GoReactors/backend-learning: the "Game" resource service.    *)
(*                                                                         *)
(* The repository carries two parallel implementations:                    *)
(*   - the core variant (internal/core): GameService.Create / Get over the *)
(*     by-value GamesRepository port, with identifiers from uidgen;        *)
(*   - the name-only variant (internal/application, internal/port): the    *)
(*     GameRepositoryAdapter, a map[string]*Game that stores the pointer   *)
(*     it is handed, and the GameService Create / FindOne that use it.     *)
(* Spec is the core variant, SpecAdapter the name-only variant.            *)
(***************************************************************************)
EXTENDS Integers, Sequences, FiniteSets, TLC

\* ------------------------------------------------------------------ bounds

\* Width of the machine type uint, scaled down (Go: 32 or 64 bits).
UintBits == 3
\* Largest size and bomb count a caller supplies.
MaxSize == 3
MaxBombs == 2
\* Number of identifiers the generators hand out before the model stops.
MaxCreates == 2
\* Number of Game variables that come to exist next to the pointer adapter.
MaxObjs == 2
\* Number of requests the transport serves at the same time.
MaxWorkers == 2

\* ------------------------------------------------------------- value sets

UintMod == 2 ^ UintBits

Names == {"Alpha", "Bad"}

Sizes == 0 .. MaxSize

Bombs == 0 .. MaxBombs

\* The identifiers the generator hands out, in order of the calls.
UIDTable == <<"uid-1", "uid-2", "uid-3", "uid-4", "uid-5", "uid-6">>

\* Identifiers a caller may ask for: every generated one, the empty string and
\* one that no generator produces.
GuessIDs == {"", "nonexistent-id"}

IDS == GuessIDs \cup {UIDTable[i] : i \in 1 .. MaxCreates}

\* ------------------------------------------------------------------ errors
\* A Go error is modelled by its chain of messages, outermost first: errors.New
\* and fmt.Errorf without %w make a chain of one; nil is the empty chain.

NilErr == <<>>

ErrInvalidBombs == <<"the number of bombs is invalid">>

ErrCreateFailed == <<"create game into repository has failed">>

ErrGetFailed == <<"get game from repository has failed">>

ErrGameNotFound == <<"game not found">>

\* What a backend that cannot complete a read or a write reports.
ErrStorage == <<"storage failure">>

\* ------------------------------------------------------------------ domain

\* domain.Game{}
ZeroGame == [ID |-> "", Name |-> "", Size |-> 0, BombCount |-> 0]

\* domain.NewGame(id, name, size, bombs)
NewGame(id, name, size, bombs) ==
    [ID |-> id, Name |-> name, Size |-> size, BombCount |-> bombs]

\* uint multiplication: the product modulo the width.
UMul(a, b) == (a * b) % UintMod

\* ----------------------------------------------------------------- state

VARIABLES
    kvs,        \* core: the in-memory repository's mapping ID -> Game
    backend,    \* core: the GamesRepository wired into the service
    uidCount,   \* core: number of identifiers uidGen has handed out
    ret,        \* core: the last completed service call and what it did
    created,    \* core: the Games returned by successful Creates, in order
    heap,       \* adapter: the Game variables that exist, by address
    held,       \* adapter: the addresses a caller of the adapter holds
    games,      \* adapter: GameRepositoryAdapter.games, ID -> address
    uuidCount,  \* adapter: number of identifiers uuid.New has handed out
    aret,       \* adapter: the last completed call and what it returned
    cpc,        \* concurrent: where each worker is in its request
    creq,       \* concurrent: the request each worker is serving
    cgames,     \* concurrent: the adapter's map, ID -> the Game stored
    cuuid,      \* concurrent: number of identifiers uuid.New has handed out
    cdone,      \* concurrent: the Games whose Create has returned
    cres,       \* concurrent: what each worker's last request returned
    raced,      \* concurrent: whether a worker's map access overlapped a write
    crashed     \* concurrent: whether the runtime has stopped the process

coreVars == <<kvs, backend, uidCount, ret, created>>

adapterVars == <<heap, held, games, uuidCount, aret>>

concVars == <<cpc, creq, cgames, cuuid, cdone, cres, raced, crashed>>

vars == <<kvs, backend, uidCount, ret, created, heap, held, games, uuidCount, aret,
          cpc, creq, cgames, cuuid, cdone, cres, raced, crashed>>

EmptyMap == [x \in {} |-> ZeroGame]

\* The status of a call that was not made over HTTP.
NoStatus == 0

NoCall ==
    [op |-> "none", name |-> "", size |-> 0, bombs |-> 0, id |-> "",
     game |-> ZeroGame, err |-> NilErr,
     uids |-> <<>>, saves |-> <<>>, gets |-> <<>>, repoErr |-> NilErr,
     http |-> NoStatus]

\* ------------------------------------------------------------ uid generator

\* srv.uidGen.UID().String(): the n-th identifier.
UIDString(n) == UIDTable[n]

\* ------------------------------------------------------- repository (port)

\* The in-memory GamesRepository that main wires in (game_repository.NewMemKVS)
\* and the domain package are outside the source tree at hand; they follow the
\* port's contract: a mapping from ID to Game held by value.

\* The repository rejecting what Create would reject.
KvsSaveValidating(m, game) ==
    IF game.BombCount >= game.Size * game.Size
        THEN m
        ELSE [x \in DOMAIN m \cup {game.ID} |-> IF x = game.ID THEN game ELSE m[x]]

\* Save: an unconditional upsert keyed by game.ID.
KvsSave(m, game) ==
    [x \in DOMAIN m \cup {game.ID} |-> IF x = game.ID THEN game ELSE m[x]]

\* Get: a pure lookup; NotFound when there is no entry.
KvsGet(m, id) ==
    IF id \in DOMAIN m
        THEN [game |-> m[id], err |-> NilErr]
        ELSE [game |-> ZeroGame, err |-> ErrGameNotFound]

\* The outcomes a GamesRepository may give for Save: the in-memory one always
\* completes the write; another backend may fail and leave the store alone.
SaveOutcomes(m, game) ==
    {[kvs |-> KvsSave(m, game), err |-> NilErr]}
        \cup (IF backend = "faulty" THEN {[kvs |-> m, err |-> ErrStorage]} ELSE {})

GetOutcomes(m, id) ==
    {KvsGet(m, id)}
        \cup (IF backend = "faulty"
                 THEN {[game |-> ZeroGame, err |-> ErrStorage]} ELSE {})

\* ------------------------------------------------------------ game service

\* The validation with the comparison off by one.
BombsInvalidOffByOne(size, bombs) == bombs > UMul(size, size)

\* The validation passing every request for an empty grid.
BombsInvalidSkipsEmpty(size, bombs) == size # 0 /\ bombs >= UMul(size, size)

\* create_game_service.go:10
BombsInvalid(size, bombs) == bombs >= UMul(size, size)

\* The constructor called with size and bombs swapped.
CreateGameSwapped(uid, name, size, bombs) == NewGame(uid, name, bombs, size)

\* The constructor called with the identifier and the name swapped.
CreateGameNameAsID(uid, name, size, bombs) == NewGame(name, uid, size, bombs)

\* The constructor given one identifier for every Game.
CreateGameFixedID(uid, name, size, bombs) == NewGame(UIDString(1), name, size, bombs)

\* create_game_service.go:14: the Game handed to Save.
CreateGame(uid, name, size, bombs) == NewGame(uid, name, size, bombs)

\* Create with the error of Save dropped.
CreateReturnIgnoresErr(game, saveErr) == [game |-> game, err |-> NilErr]

\* Create returning the constructed Game next to the error.
CreateReturnLeaksGame(game, saveErr) ==
    IF saveErr # NilErr
        THEN [game |-> game, err |-> ErrCreateFailed]
        ELSE [game |-> game, err |-> NilErr]

\* Create returning the zero Game on success.
CreateReturnZeroOnSuccess(game, saveErr) ==
    IF saveErr # NilErr
        THEN [game |-> ZeroGame, err |-> ErrCreateFailed]
        ELSE [game |-> ZeroGame, err |-> NilErr]

\* create_game_service.go:16-20: what Create returns after Save.
CreateReturn(game, saveErr) ==
    IF saveErr # NilErr
        THEN [game |-> ZeroGame, err |-> ErrCreateFailed]
        ELSE [game |-> game, err |-> NilErr]

\* Get with the error of Repository.Get dropped.
GetReturnIgnoresErr(got) == [game |-> got.game, err |-> NilErr]

\* get_game_service.go:10-15: what Get returns after Repository.Get.
GetReturn(got) ==
    IF got.err # NilErr
        THEN [game |-> ZeroGame, err |-> ErrGetFailed]
        ELSE [game |-> got.game, err |-> NilErr]

\* Create asking for the identifier before it validates.
CreateUIDCallsEager(size, bombs) == 1

\* create_game_service.go:10-14: the identifiers Create asks uidGen for; the
\* call comes after the validation has returned.
CreateUIDCalls(size, bombs) == IF BombsInvalid(size, bombs) THEN 0 ELSE 1

\* The identifiers uidGen hands out to n calls made now.
TakeUIDs(n) == [i \in 1 .. n |-> UIDString(uidCount + i)]

CreateRejected(name, size, bombs) ==
    /\ BombsInvalid(size, bombs)
    /\ uidCount + CreateUIDCalls(size, bombs) <= MaxCreates
    /\ uidCount' = uidCount + CreateUIDCalls(size, bombs)
    /\ ret' = [NoCall EXCEPT !.op = "Create", !.name = name, !.size = size,
                             !.bombs = bombs, !.err = ErrInvalidBombs,
                             !.uids = TakeUIDs(CreateUIDCalls(size, bombs))]
    /\ UNCHANGED <<kvs, backend, created>>

CreateAccepted(name, size, bombs) ==
    /\ ~BombsInvalid(size, bombs)
    /\ uidCount + CreateUIDCalls(size, bombs) <= MaxCreates
    /\ LET uids == TakeUIDs(CreateUIDCalls(size, bombs))
           game == CreateGame(uids[1], name, size, bombs)
       IN \E out \in SaveOutcomes(kvs, game) :
            LET r == CreateReturn(game, out.err)
            IN /\ uidCount' = uidCount + CreateUIDCalls(size, bombs)
               /\ kvs' = out.kvs
               /\ ret' = [NoCall EXCEPT !.op = "Create", !.name = name,
                                        !.size = size, !.bombs = bombs,
                                        !.game = r.game, !.err = r.err,
                                        !.uids = uids, !.saves = <<game>>,
                                        !.repoErr = out.err]
               /\ created' = IF r.err = NilErr THEN Append(created, r.game)
                                               ELSE created
               /\ UNCHANGED backend

\* GameService.Create
Create(name, size, bombs) ==
    \/ CreateRejected(name, size, bombs)
    \/ CreateAccepted(name, size, bombs)

\* http.go:18-26, HTTPHandler.Get: the status it answers for the service's error.
HandlerGetStatus(err) == IF err # NilErr THEN 500 ELSE 200

\* GameService.Get, as main wires it: GET /games/:id -> HTTPHandler.Get -> Get.
Get(id) ==
    \E got \in GetOutcomes(kvs, id) :
        LET r == GetReturn(got)
        IN /\ ret' = [NoCall EXCEPT !.op = "Get", !.id = id, !.game = r.game,
                                    !.err = r.err, !.gets = <<id>>,
                                    !.repoErr = got.err,
                                    !.http = HandlerGetStatus(r.err)]
           /\ UNCHANGED <<kvs, backend, uidCount, created>>

\* main.go:16-18: the routes main registers; POST /games is commented out.
Routes == {[method |-> "GET", path |-> "/games/:id"]}

\* A POST /games request to the wired program: no route matches it, the router
\* answers 404 and no handler and no service call runs.
PostGames ==
    /\ [method |-> "POST", path |-> "/games"] \notin Routes
    /\ ret' = [NoCall EXCEPT !.op = "PostGames", !.http = 404]
    /\ UNCHANGED <<kvs, backend, uidCount, created>>

InitCore ==
    /\ kvs = EmptyMap
    /\ uidCount = 0
    /\ ret = NoCall
    /\ created = <<>>

DoCreate ==
    /\ \E name \in Names, size \in Sizes, bombs \in Bombs : Create(name, size, bombs)
    /\ UNCHANGED <<adapterVars, concVars>>

DoGet ==
    /\ \E id \in IDS : Get(id)
    /\ UNCHANGED <<adapterVars, concVars>>

DoPostGames ==
    /\ PostGames
    /\ UNCHANGED <<adapterVars, concVars>>

\* ------------------------------------------- name-only variant: the domain

\* game_domain.Game{}
ZeroGame2 == [ID |-> "", Name |-> ""]

\* The identifiers uuid.New().String() hands out, in order of the calls.
UUIDTable == <<"uuid-1", "uuid-2", "uuid-3", "uuid-4", "uuid-5", "uuid-6">>

UUIDString(n) == UUIDTable[n]

\* game_domain.NewGame(name), given the identifier uuid.New() produced.
NewGame2(uuid, name) == [ID |-> uuid, Name |-> name]

\* Identifiers callers of the adapter give their own Games.
CallerIDs == {"g1", "g2"}

AdapterIDS == CallerIDs \cup {"nonexistent-id"} \cup {UUIDTable[i] : i \in 1 .. MaxObjs}

NoPtr == 0

NoCall2 ==
    [op |-> "none", ptr |-> NoPtr, id |-> "", name |-> "",
     game |-> ZeroGame2, err |-> NilErr, existed |-> FALSE, same |-> FALSE,
     saves |-> <<>>, repoErr |-> NilErr, http |-> NoStatus]

\* -------------------------------------- GameRepositoryAdapter (pointer map)

\* What the repository holds, as a later Get would return it: ID -> Game value.
View(m, h) == [id \in DOMAIN m |-> h[m[id]]]

\* Save that keeps an entry that is already there.
AdapterSaveIfAbsent(m, h, p) ==
    [x \in DOMAIN m \cup {h[p].ID} |-> IF x \in DOMAIN m THEN m[x] ELSE p]

\* Save, line 28: repo.games[game.ID] = game, the pointer itself.
AdapterSave(m, h, p) ==
    [x \in DOMAIN m \cup {h[p].ID} |-> IF x = h[p].ID THEN p ELSE m[x]]

\* Save that refuses a key that is already there.
AdapterSaveErrOnDuplicate(m, h, p) ==
    IF h[p].ID \in DOMAIN m THEN ErrStorage ELSE NilErr

\* Save, line 29: return nil.
AdapterSaveErr(m, h, p) == NilErr

\* Get that takes the entry out of the map as it reads it.
AdapterAfterGetTakes(m, id) == [x \in DOMAIN m \ {id} |-> m[x]]

\* Get, line 20: the comma-ok lookup leaves the map as it is.
AdapterAfterGet(m, id) == m

\* Get, lines 20-24: a copy of the Game the stored pointer refers to.
AdapterGet(m, h, id) ==
    IF id \in DOMAIN m
        THEN [game |-> h[m[id]], err |-> NilErr]
        ELSE [game |-> ZeroGame2, err |-> ErrGameNotFound]

\* Get, lines 20-24, on a map seen by value: ID -> the Game the pointer refers to.
AdapterGetValue(m, id) ==
    IF id \in DOMAIN m
        THEN [game |-> m[id], err |-> NilErr]
        ELSE [game |-> ZeroGame2, err |-> ErrGameNotFound]

\* A caller declares a Game variable of its own.
CallerNew(id, name) ==
    /\ Len(heap) < MaxObjs
    /\ heap' = Append(heap, [ID |-> id, Name |-> name])
    /\ held' = held \cup {Len(heap) + 1}
    /\ aret' = [NoCall2 EXCEPT !.op = "New", !.ptr = Len(heap) + 1]
    /\ UNCHANGED <<games, uuidCount>>

\* A caller calls repo.Save(&g) on one of its variables.
RepoSave(p) ==
    /\ games' = AdapterSave(games, heap, p)
    /\ aret' = [NoCall2 EXCEPT !.op = "Save", !.ptr = p, !.id = heap[p].ID,
                               !.game = heap[p],
                               !.err = AdapterSaveErr(games, heap, p),
                               !.existed = (heap[p].ID \in DOMAIN games),
                               !.same = /\ heap[p].ID \in DOMAIN games
                                        /\ heap[games[heap[p].ID]] = heap[p]]
    /\ UNCHANGED <<heap, held, uuidCount>>

\* A caller calls repo.Get(id) and receives a copy.
RepoGet(id) ==
    LET got == AdapterGet(games, heap, id)
    IN /\ aret' = [NoCall2 EXCEPT !.op = "Get", !.id = id, !.game = got.game,
                                  !.err = got.err,
                                  !.existed = (id \in DOMAIN games)]
       /\ games' = AdapterAfterGet(games, id)
       /\ UNCHANGED <<heap, held, uuidCount>>

\* A caller assigns to a field of a Game variable it passed, or may pass, to Save.
CallerSetName(p, name) ==
    /\ heap[p].Name # name
    /\ heap' = [heap EXCEPT ![p].Name = name]
    /\ aret' = [NoCall2 EXCEPT !.op = "SetName", !.ptr = p, !.name = name]
    /\ UNCHANGED <<held, games, uuidCount>>

CallerSetID(p, id) ==
    /\ heap[p].ID # id
    /\ heap' = [heap EXCEPT ![p].ID = id]
    /\ aret' = [NoCall2 EXCEPT !.op = "SetID", !.ptr = p, !.id = id]
    /\ UNCHANGED <<held, games, uuidCount>>

\* A caller assigns to a field of the Game value a call returned to it.
CallerSetCopyName(name) ==
    /\ aret.op \in {"Get", "Create", "FindOne"}
    /\ aret.err = NilErr
    /\ aret.game.Name # name
    /\ aret' = [aret EXCEPT !.op = "SetCopy", !.game.Name = name]
    /\ UNCHANGED <<heap, held, games, uuidCount>>

\* ---------------------------------- name-only GameService (game.service.go)

\* http.go:83-88, GameAPIAdapter.create: the status for the service's error.
ApiCreateStatus(err) == IF err # NilErr THEN 500 ELSE 201

\* http.go:66-71, GameAPIAdapter.findOne: the status for the service's error.
ApiFindOneStatus(err) == IF err # NilErr THEN 404 ELSE 200

\* game.service.go:9: the service holds a GameRepositoryPort. The adapter of
\* part_000 completes every call; another implementation may fail and leave
\* the store alone.
PortSaveOutcomes(m, h, p) ==
    {[games |-> AdapterSave(m, h, p), err |-> AdapterSaveErr(m, h, p)]}
        \cup (IF backend = "faulty" THEN {[games |-> m, err |-> ErrStorage]} ELSE {})

PortGetOutcomes(m, h, id) ==
    {AdapterGet(m, h, id)}
        \cup (IF backend = "faulty"
                 THEN {[game |-> ZeroGame2, err |-> ErrStorage]} ELSE {})

\* FindOne wrapping the repository's error in one of its own.
AppFindOneReturnWrapped(got) ==
    IF got.err # NilErr
        THEN [game |-> ZeroGame2, err |-> ErrGetFailed]
        ELSE [game |-> got.game, err |-> NilErr]

\* game.service.go:20-24: what Create returns after Save.
AppCreateReturn(game, saveErr) ==
    IF saveErr # NilErr
        THEN [game |-> ZeroGame2, err |-> saveErr]
        ELSE [game |-> game, err |-> NilErr]

\* game.service.go:28-32: what FindOne returns after Get.
AppFindOneReturn(got) ==
    IF got.err # NilErr
        THEN [game |-> ZeroGame2, err |-> got.err]
        ELSE [game |-> got.game, err |-> NilErr]

\* Create, lines 18-25: the local game escapes to the heap as &game is saved;
\* the caller receives a copy and never the address.
AppCreate(name) ==
    /\ Len(heap) < MaxObjs
    /\ LET p == Len(heap) + 1
           h == Append(heap, NewGame2(UUIDString(uuidCount + 1), name))
       IN \E out \in PortSaveOutcomes(games, h, p) :
            LET r == AppCreateReturn(h[p], out.err)
            IN /\ uuidCount' = uuidCount + 1
               /\ heap' = h
               /\ games' = out.games
               /\ aret' = [NoCall2 EXCEPT !.op = "Create", !.name = name,
                                          !.game = r.game, !.err = r.err,
                                          !.saves = <<h[p]>>,
                                          !.repoErr = out.err,
                                          !.http = ApiCreateStatus(r.err)]
               /\ UNCHANGED held

\* http.go:78-81, GameAPIAdapter.create: a body that does not bind is answered
\* 400 before the service is called.
AppCreateBadBody ==
    /\ aret' = [NoCall2 EXCEPT !.op = "CreateBadBody", !.http = 400]
    /\ UNCHANGED <<heap, held, games, uuidCount>>

\* FindOne, lines 27-33.
AppFindOne(id) ==
    \E got \in PortGetOutcomes(games, heap, id) :
       LET r == AppFindOneReturn(got)
       IN /\ aret' = [NoCall2 EXCEPT !.op = "FindOne", !.id = id,
                                     !.game = r.game, !.err = r.err,
                                     !.repoErr = got.err,
                                     !.http = ApiFindOneStatus(r.err)]
          /\ games' = AdapterAfterGet(games, id)
          /\ UNCHANGED <<heap, held, uuidCount>>

InitAdapter ==
    /\ heap = <<>>
    /\ held = {}
    /\ games = [x \in {} |-> NoPtr]
    /\ uuidCount = 0
    /\ aret = NoCall2

DoCallerNew ==
    /\ \E id \in CallerIDs, name \in Names : CallerNew(id, name)
    /\ UNCHANGED <<coreVars, concVars>>

DoRepoSave ==
    /\ \E p \in held : RepoSave(p)
    /\ UNCHANGED <<coreVars, concVars>>

DoRepoGet ==
    /\ \E id \in AdapterIDS : RepoGet(id)
    /\ UNCHANGED <<coreVars, concVars>>

DoCallerSet ==
    /\ \E p \in held :
          \/ \E name \in Names : CallerSetName(p, name)
          \/ \E id \in CallerIDs : CallerSetID(p, id)
    /\ UNCHANGED <<coreVars, concVars>>

DoCallerSetCopy ==
    /\ \E name \in Names : CallerSetCopyName(name)
    /\ UNCHANGED <<coreVars, concVars>>

DoAppCreate ==
    /\ \E name \in Names : AppCreate(name)
    /\ UNCHANGED <<coreVars, concVars>>

DoAppFindOne ==
    /\ \E id \in AdapterIDS : AppFindOne(id)
    /\ UNCHANGED <<coreVars, concVars>>

DoAppCreateBadBody ==
    /\ AppCreateBadBody
    /\ UNCHANGED <<coreVars, concVars>>

NextAdapter ==
    \/ DoCallerNew
    \/ DoRepoSave
    \/ DoRepoGet
    \/ DoCallerSet
    \/ DoCallerSetCopy
    \/ DoAppCreate
    \/ DoAppFindOne
    \/ DoAppCreateBadBody

\* ------------------------------------------------- concurrent requests
\* The transport serves each request on a goroutine of its own
\* (GameAPIAdapter -> GameService -> GameRepositoryAdapter). The adapter has no
\* lock: a map access begins and ends, and other workers run in between.

Workers == 1 .. MaxWorkers

NoReq == [op |-> "none", id |-> "", game |-> ZeroGame2, known |-> {}]

NoRes == [op |-> "none", id |-> "", game |-> ZeroGame2, err |-> NilErr, known |-> {}]

ConcIDS == {"nonexistent-id"} \cup {UUIDTable[i] : i \in 1 .. MaxCreates}

\* The workers whose map access conflicts with one that w begins: every access
\* in progress when w writes, the writes in progress when w reads.
Conflicting(w, writes) ==
    {v \in Workers \ {w} :
        cpc[v] = "writing" \/ (writes /\ cpc[v] = "reading")}

\* part_000:28 without a lock: what the map holds after a write that raced.
\* The Go runtime may complete it, may leave the map without another entry, or
\* stops the process ("concurrent map writes").
RacedWriteOutcomes(m, game) ==
    {[games |-> [x \in DOMAIN m \cup {game.ID} |-> IF x = game.ID THEN game ELSE m[x]],
      crash |-> FALSE]}
      \cup {[games |-> [x \in (DOMAIN m \cup {game.ID}) \ {lost} |->
                            IF x = game.ID THEN game ELSE m[x]],
             crash |-> FALSE] : lost \in DOMAIN m \ {game.ID}}
      \cup {[games |-> m, crash |-> TRUE]}

\* part_000:20 without a lock: what a lookup that raced with a write reports.
RacedReadOutcomes(m, id) ==
    {[game |-> IF id \in DOMAIN m THEN m[id] ELSE ZeroGame2,
      err |-> IF id \in DOMAIN m THEN NilErr ELSE ErrGameNotFound, crash |-> FALSE],
     [game |-> ZeroGame2, err |-> ErrGameNotFound, crash |-> FALSE],
     [game |-> ZeroGame2, err |-> NilErr, crash |-> TRUE]}

\* POST /games: create -> GameService.Create -> NewGame -> Save begins to write.
CCreateBegin(w, name) ==
    /\ ~crashed
    /\ cpc[w] = "idle"
    /\ cuuid < MaxCreates
    /\ cuuid' = cuuid + 1
    /\ creq' = [creq EXCEPT ![w] = [NoReq EXCEPT !.op = "Create",
                    !.game = NewGame2(UUIDString(cuuid + 1), name),
                    !.id = UUIDString(cuuid + 1), !.known = cdone]]
    /\ cpc' = [cpc EXCEPT ![w] = "writing"]
    /\ raced' = [v \in Workers |->
                    IF v = w THEN Conflicting(w, TRUE) # {}
                    ELSE raced[v] \/ v \in Conflicting(w, TRUE)]
    /\ UNCHANGED <<cgames, cdone, cres, crashed>>

\* Save's write ends and Create returns the Game.
CCreateEnd(w) ==
    /\ ~crashed
    /\ cpc[w] = "writing"
    /\ \E out \in (IF raced[w]
                      THEN RacedWriteOutcomes(cgames, creq[w].game)
                      ELSE {[games |-> [x \in DOMAIN cgames \cup {creq[w].id} |->
                                          IF x = creq[w].id THEN creq[w].game
                                                            ELSE cgames[x]],
                             crash |-> FALSE]}) :
          /\ cgames' = out.games
          /\ crashed' = out.crash
          /\ cdone' = IF out.crash THEN cdone ELSE cdone \cup {creq[w].game}
          /\ cres' = IF out.crash THEN cres
                     ELSE [cres EXCEPT ![w] = [NoRes EXCEPT !.op = "Create",
                              !.id = creq[w].id, !.game = creq[w].game,
                              !.known = creq[w].known]]
    /\ cpc' = [cpc EXCEPT ![w] = "idle"]
    /\ creq' = [creq EXCEPT ![w] = NoReq]
    /\ raced' = [raced EXCEPT ![w] = FALSE]
    /\ UNCHANGED cuuid

\* GET /games/:id: findOne -> GameService.FindOne -> Get begins to read.
CFindBegin(w, id) ==
    /\ ~crashed
    /\ cpc[w] = "idle"
    /\ creq' = [creq EXCEPT ![w] = [NoReq EXCEPT !.op = "FindOne", !.id = id,
                                                 !.known = cdone]]
    /\ cpc' = [cpc EXCEPT ![w] = "reading"]
    /\ raced' = [v \in Workers |->
                    IF v = w THEN Conflicting(w, FALSE) # {}
                    ELSE raced[v] \/ v \in Conflicting(w, FALSE)]
    /\ UNCHANGED <<cgames, cuuid, cdone, cres, crashed>>

\* Get's read ends and FindOne returns.
CFindEnd(w) ==
    /\ ~crashed
    /\ cpc[w] = "reading"
    /\ \E out \in (IF raced[w]
                      THEN RacedReadOutcomes(cgames, creq[w].id)
                      ELSE {[game |-> AdapterGetValue(cgames, creq[w].id).game,
                             err |-> AdapterGetValue(cgames, creq[w].id).err,
                             crash |-> FALSE]}) :
          /\ crashed' = out.crash
          /\ cres' = IF out.crash THEN cres
                     ELSE [cres EXCEPT ![w] = [NoRes EXCEPT !.op = "FindOne",
                              !.id = creq[w].id, !.game = out.game,
                              !.err = out.err, !.known = creq[w].known]]
    /\ cpc' = [cpc EXCEPT ![w] = "idle"]
    /\ creq' = [creq EXCEPT ![w] = NoReq]
    /\ raced' = [raced EXCEPT ![w] = FALSE]
    /\ UNCHANGED <<cgames, cuuid, cdone>>

InitConc ==
    /\ cpc = [w \in Workers |-> "idle"]
    /\ creq = [w \in Workers |-> NoReq]
    /\ cgames = [x \in {} |-> ZeroGame2]
    /\ cuuid = 0
    /\ cdone = {}
    /\ cres = [w \in Workers |-> NoRes]
    /\ raced = [w \in Workers |-> FALSE]
    /\ crashed = FALSE

DoCCreateBegin ==
    /\ \E w \in Workers, name \in Names : CCreateBegin(w, name)
    /\ UNCHANGED <<coreVars, adapterVars>>

DoCCreateEnd ==
    /\ \E w \in Workers : CCreateEnd(w)
    /\ UNCHANGED <<coreVars, adapterVars>>

DoCFindBegin ==
    /\ \E w \in Workers, id \in ConcIDS : CFindBegin(w, id)
    /\ UNCHANGED <<coreVars, adapterVars>>

DoCFindEnd ==
    /\ \E w \in Workers : CFindEnd(w)
    /\ UNCHANGED <<coreVars, adapterVars>>

NextConc == DoCCreateBegin \/ DoCCreateEnd \/ DoCFindBegin \/ DoCFindEnd

InitC ==
    /\ InitCore
    /\ backend = "mem"
    /\ InitAdapter
    /\ InitConc

SpecConc == InitC /\ [][NextConc]_vars

\* ------------------------------------------ the repository called directly
\* GamesRepository is a public port: any caller holding it may Save a Game it
\* built itself, without going through GameService.Create.

RepoIDs == {"g1", "g2"}

\* Every Game value a caller can build, the ones Create would reject included.
AnyGames == [ID : RepoIDs, Name : {"Alpha"}, Size : Sizes, BombCount : Bombs]

\* GamesRepository.Save(game)
KvsSaveCall(game) ==
    /\ \E out \in SaveOutcomes(kvs, game) :
          /\ kvs' = out.kvs
          /\ ret' = [NoCall EXCEPT !.op = "RepoSave", !.id = game.ID,
                                   !.saves = <<game>>, !.repoErr = out.err,
                                   !.err = out.err]
    /\ UNCHANGED <<backend, uidCount, created>>

\* GamesRepository.Get(id)
KvsGetCall(id) ==
    /\ \E got \in GetOutcomes(kvs, id) :
          ret' = [NoCall EXCEPT !.op = "RepoGet", !.id = id, !.gets = <<id>>,
                                !.game = got.game, !.repoErr = got.err,
                                !.err = got.err]
    /\ UNCHANGED <<kvs, backend, uidCount, created>>

DoKvsSave ==
    /\ \E game \in AnyGames : KvsSaveCall(game)
    /\ UNCHANGED <<adapterVars, concVars>>

DoKvsGet ==
    /\ \E id \in RepoIDs \cup {"nonexistent-id"} : KvsGetCall(id)
    /\ UNCHANGED <<adapterVars, concVars>>

NextRepo == DoKvsSave \/ DoKvsGet

InitR ==
    /\ InitCore
    /\ backend = "mem"
    /\ InitAdapter
    /\ InitConc

SpecRepo == InitR /\ [][NextRepo]_vars

\* ------------------------------- the name-only service over any repository

NextApp == DoAppCreate \/ DoAppFindOne

InitApp ==
    /\ InitCore
    /\ backend \in {"mem", "faulty"}
    /\ InitAdapter
    /\ InitConc

SpecApp == InitApp /\ [][NextApp]_vars

InitA ==
    /\ InitCore
    /\ backend = "mem"
    /\ InitAdapter
    /\ InitConc

SpecAdapter == InitA /\ [][NextAdapter]_vars

Init ==
    /\ InitCore
    /\ backend \in {"mem", "faulty"}
    /\ InitAdapter
    /\ InitConc

Next == DoCreate \/ DoGet \/ DoPostGames

Spec == Init /\ [][Next]_vars

\* ================================================================== claims

\* The mathematical square, as the spec's size * size.
Square(n) == n * n

\* Whether target is in the chain of err, as errors.Is finds it.
ErrorsIs(err, target) == \E i \in 1 .. Len(err) : err[i] = target[1]

C2_ValidCreateRoundTrip ==
    (ret.op = "Create" /\ backend = "mem" /\ ret.size > 0
        /\ ret.bombs < Square(ret.size)) =>
        /\ ret.err = NilErr
        /\ ret.game.ID # ""
        /\ ret.game = NewGame(ret.game.ID, ret.name, ret.size, ret.bombs)
        /\ GetReturn(KvsGet(kvs, ret.game.ID)) = [game |-> ret.game, err |-> NilErr]

\* C3: every Game held in the repository has BombCount < Size * Size.
C3_StoredBombsBelowCells ==
    \A id \in DOMAIN kvs : kvs[id].BombCount < Square(kvs[id].Size)

C3_Witness ==
    /\ Cardinality(DOMAIN kvs) >= 2
    /\ \E id \in DOMAIN kvs : kvs[id].Size = MaxSize
    /\ \E id \in DOMAIN kvs : kvs[id].BombCount > 0

\* C4: when Repository.Get reports NotFound, the error the service's Get returns
\* is still a NotFound error, and differs from the one it returns for a storage
\* failure.
C4_NotFoundKeepsKind ==
    (ret.op = "Get" /\ ret.repoErr = ErrGameNotFound) =>
        /\ ErrorsIs(ret.err, ErrGameNotFound)
        /\ ret.err # GetReturn([game |-> ZeroGame, err |-> ErrStorage]).err

\* C5: the Games returned by successful Creates have pairwise distinct IDs, and
\* each is still stored as it was returned: no later Create overwrote it.
C5_CreatedIDsDistinct ==
    /\ \A i, j \in 1 .. Len(created) :
          i # j => created[i].ID # created[j].ID
    /\ \A i \in 1 .. Len(created) :
          /\ created[i].ID \in DOMAIN kvs
          /\ kvs[created[i].ID] = created[i]

C5_Witness ==
    /\ Len(created) >= 2
    /\ created[1].Name = created[2].Name
    /\ created[1].Size = created[2].Size
    /\ created[1].BombCount = created[2].BombCount

\* C6: every Save returns no error, and a Save of a Game value the repository
\* already holds under that ID (Save called again with the same Game) leaves
\* what the repository holds unchanged; Get of the ID then returns that Game.
C6_SaveIdempotent ==
    [][aret'.op = "Save" =>
          /\ aret'.err = NilErr
          /\ AdapterGet(games', heap', aret'.id) = [game |-> aret'.game, err |-> NilErr]
          /\ aret'.same => View(games', heap') = View(games, heap)]_vars

C6_Witness ==
    /\ aret.op = "Save"
    /\ aret.same
    /\ aret.err = NilErr
    /\ View(games, heap)[aret.id] = aret.game

\* C7: Save is an unconditional upsert: after Save(g) the entry of g.ID is g,
\* whether or not there was one, every other entry is as before, the keys are
\* the old ones and g.ID, and no error is returned.
C7_SaveUpsert ==
    [][aret'.op = "Save" =>
          /\ aret'.err = NilErr
          /\ DOMAIN games' = DOMAIN games \cup {aret'.id}
          /\ View(games', heap')[aret'.id] = aret'.game
          /\ \A x \in DOMAIN games \ {aret'.id} :
                View(games', heap')[x] = View(games, heap)[x]]_vars

C7_Witness ==
    /\ aret.op = "Save"
    /\ aret.existed
    /\ ~aret.same
    /\ Cardinality(DOMAIN games) >= 2
    /\ View(games, heap)[aret.id] = aret.game

\* C8: when the input passes validation and Save returns an error, Create
\* returns the create-failed error with the zero Game, and that error is not
\* the one a rejected input gets.
C8_SaveFailureSurfaced ==
    (ret.op = "Create" /\ ret.saves # <<>> /\ ret.repoErr # NilErr) =>
        /\ ~BombsInvalid(ret.size, ret.bombs)
        /\ ret.err = ErrCreateFailed
        /\ ret.game = ZeroGame
        /\ ret.err # ErrInvalidBombs
        /\ \A i \in 1 .. Len(created) : created[i] # ret.saves[1]

C8_Witness ==
    /\ ret.op = "Create"
    /\ ret.saves # <<>>
    /\ ret.repoErr = ErrStorage
    /\ ret.err = ErrCreateFailed

\* C9: a successful Create asks uidGen for exactly one identifier and returns a
\* Game with that identifier; a Create rejected for its bombs and a Get ask for
\* none; uidGen's count moves by exactly the identifiers the call asked for.
C9_OneUIDPerCreate ==
    [][/\ uidCount' = uidCount + Len(ret'.uids)
       /\ (ret'.op = "Create" /\ ret'.err = NilErr) =>
             /\ ret'.uids = <<UIDString(uidCount')>>
             /\ ret'.game.ID = ret'.uids[1]
       /\ (ret'.op = "Create" /\ ret'.err = ErrInvalidBombs) => ret'.uids = <<>>
       /\ ret'.op = "Get" => ret'.uids = <<>>]_vars

C9_Witness ==
    /\ ret.op = "Create"
    /\ ret.err = ErrInvalidBombs
    /\ uidCount = 1
    /\ Len(created) = 1
    /\ created[1].ID = UIDString(1)

\* C10: a caller changing a Game it passed to Save, or a Game a call returned
\* to it, does not change what the repository returns for any ID.
C10_StoredCopyOwned ==
    [][aret'.op \in {"SetName", "SetID", "SetCopy"} =>
          View(games', heap') = View(games, heap)]_vars

\* C11: no Save writes the mapping while another Save or a Get is accessing it.
C11_MapAccessExclusive ==
    \A w1, w2 \in Workers :
        (w1 # w2 /\ cpc[w1] = "writing") => cpc[w2] \notin {"writing", "reading"}

\* C12: a Get that starts after a Create has returned Game g returns g for
\* g.ID, never NotFound, and the entry of a Game whose Create has returned does
\* not disappear or change while other Creates run.
C12_GetSeesReturnedCreate ==
    /\ \A w \in Workers : \A g \in cres[w].known :
          (cres[w].op = "FindOne" /\ cres[w].id = g.ID) =>
              (cres[w].err = NilErr /\ cres[w].game = g)
    /\ ~crashed =>
          \A g \in cdone : g.ID \in DOMAIN cgames /\ cgames[g.ID] = g

\* C13: over service Create and Get calls, an entry that exists in the
\* repository keeps its value and is never removed: the stored IDs only grow.
C13_StoredEntriesStable ==
    [][\A id \in DOMAIN kvs : id \in DOMAIN kvs' /\ kvs'[id] = kvs[id]]_vars

C13_Witness ==
    /\ Len(created) >= 2
    /\ ret.op = "Create"
    /\ ret.err = NilErr
    /\ kvs[created[1].ID] = created[1]
    /\ ret.game = created[2]

\* C14: Create rejects the input for its bombs exactly when bombCount >= size*size
\* holds of the numbers themselves, also where the square exceeds the width.
C14_ValidationIsMathematical ==
    ret.op = "Create" =>
        ((ret.err = ErrInvalidBombs) <=> (ret.bombs >= Square(ret.size)))

\* C15: a Create, Get or FindOne that fails returns one of the service's errors
\* with the zero Game; one that succeeds returns nil with the Game built or
\* stored, which is not the zero Game.
C15_ErrorXorGame ==
    /\ ret.op \in {"Create", "Get"} =>
          IF ret.err # NilErr
              THEN /\ ret.game = ZeroGame
                   /\ ret.err \in {ErrInvalidBombs, ErrCreateFailed, ErrGetFailed}
              ELSE /\ ret.game # ZeroGame
                   /\ ret.game.ID # ""
                   /\ ret.op = "Create" => ret.game = ret.saves[1]
                   /\ ret.op = "Get" => ret.game = kvs[ret.id]
    /\ aret.op \in {"Create", "FindOne"} =>
          IF aret.err # NilErr
              THEN /\ aret.game = ZeroGame2
                   /\ aret.err = ErrGameNotFound
              ELSE /\ aret.game # ZeroGame2
                   /\ aret.op = "Create" =>
                         /\ aret.game.ID # ""
                         /\ aret.game.Name = aret.name
                         /\ aret.game = View(games, heap)[aret.game.ID]
                   /\ aret.op = "FindOne" => aret.game = View(games, heap)[aret.id]

C15_Witness ==
    /\ ret.op = "Create"
    /\ ret.err = ErrCreateFailed
    /\ ret.saves # <<>>
    /\ ret.game = ZeroGame

\* The same case in the name-only service: FindOne missing, next to stored Games.
C15_WitnessAdapter ==
    /\ aret.op = "FindOne"
    /\ aret.err = ErrGameNotFound
    /\ aret.game = ZeroGame2
    /\ uuidCount >= 1

\* C16: GET /games/{id} is answered 200 when the service succeeds, 404 when the
\* game is missing and 500 when the storage fails.
C16_GetStatusMapped ==
    ret.op = "Get" =>
        /\ ret.err = NilErr => ret.http = 200
        /\ ret.repoErr = ErrGameNotFound => ret.http = 404
        /\ ret.repoErr = ErrStorage => ret.http = 500

\* C17: a POST /games request to the wired program reaches Create and is
\* answered 201, 400 or 500.
C17_PostGamesMapped ==
    ret.op = "PostGames" => ret.http \in {201, 400, 500}

\* C18: a repository Get, a FindOne and a service Get, hit or miss, leave the
\* repository's mapping and the stored Games as they were.
C18_GetIsPureLookup ==
    [][/\ aret'.op \in {"Get", "FindOne"} => (games' = games /\ heap' = heap)
       /\ ret'.op = "Get" => kvs' = kvs]_vars

C18_Witness ==
    /\ aret.op = "FindOne"
    /\ aret.err = ErrGameNotFound
    /\ aret.id \notin DOMAIN games
    /\ Cardinality(DOMAIN games) >= 2

\* C19: Create calls Save once when the validation passes, also when Save
\* fails, and not at all otherwise; Get calls Repository.Get once; the failure
\* of that one call is what the caller gets.
C19_NoRetry ==
    /\ ret.op = "Create" =>
          /\ Len(ret.saves) = (IF ret.err = ErrInvalidBombs THEN 0 ELSE 1)
          /\ ret.gets = <<>>
          /\ ret.repoErr # NilErr => ret.err = ErrCreateFailed
    /\ ret.op = "Get" =>
          /\ ret.gets = <<ret.id>>
          /\ ret.saves = <<>>
          /\ ret.repoErr # NilErr => ret.err = ErrGetFailed

C19_Witness ==
    /\ ret.op = "Get"
    /\ ret.repoErr = ErrStorage
    /\ ret.err = ErrGetFailed
    /\ ret.id \in DOMAIN kvs

\* C20: Create asks for the identifier only when the validation has passed,
\* hands Save a Game with the generated ID and exactly the name, size and
\* bombCount supplied, and on success returns the Game it handed to Save.
C20_CreateStepsInOrder ==
    ret.op = "Create" =>
        /\ ret.uids # <<>> => ~BombsInvalid(ret.size, ret.bombs)
        /\ ret.saves # <<>> =>
              /\ Len(ret.uids) = 1
              /\ Len(ret.saves) = 1
              /\ ret.saves[1] = [ID |-> ret.uids[1], Name |-> ret.name,
                                 Size |-> ret.size, BombCount |-> ret.bombs]
        /\ ret.err = NilErr =>
              /\ ret.saves # <<>>
              /\ ret.game = ret.saves[1]

C20_Witness ==
    /\ ret.op = "Create"
    /\ ret.err = NilErr
    /\ ret.name = "Bad"
    /\ ret.size = 2
    /\ ret.bombs = 2
    /\ ret.game.ID = UIDString(2)

\* C21: a Create with size 0 fails with the invalid-bombs error whatever the
\* bomb count is, and every Game the service has stored has Size >= 1.
C21_ZeroSizeRejected ==
    /\ (ret.op = "Create" /\ ret.size = 0) =>
          (ret.err = ErrInvalidBombs /\ ret.game = ZeroGame /\ ret.saves = <<>>)
    /\ \A id \in DOMAIN kvs : kvs[id].Size >= 1
    /\ \A i \in 1 .. Len(created) : created[i].Size >= 1

C21_Witness ==
    /\ ret.op = "Create"
    /\ ret.size = 0
    /\ ret.bombs = 0
    /\ ret.err = ErrInvalidBombs
    /\ DOMAIN kvs # {}

\* C22: the repository does not validate: a Save of any Game, one with
\* BombCount >= Size * Size included, returns no error and stores that Game, and
\* a Get of a stored ID returns the Game exactly as it was stored.
C22_RepositoryNeverValidates ==
    /\ ret.op = "RepoSave" =>
          /\ ret.err = NilErr
          /\ ret.id \in DOMAIN kvs
          /\ kvs[ret.id] = ret.saves[1]
    /\ (ret.op = "RepoGet" /\ ret.id \in DOMAIN kvs) =>
          (ret.err = NilErr /\ ret.game = kvs[ret.id])

C22_Witness ==
    /\ ret.op = "RepoGet"
    /\ ret.err = NilErr
    /\ ret.game.Size = 1
    /\ ret.game.BombCount >= Square(ret.game.Size)
    /\ \E id \in DOMAIN kvs : kvs[id].Size = 0

\* C23: every entry of the adapter's map stored under key k holds a Game whose
\* ID is k, and a successful Get(k) or FindOne(k) returns a Game whose ID is k,
\* also after callers change Games they passed to Save.
C23_KeyIsGameID ==
    /\ \A k \in DOMAIN games : View(games, heap)[k].ID = k
    /\ (aret.op \in {"Get", "FindOne"} /\ aret.err = NilErr) => aret.game.ID = aret.id

\* C24: the name-only Create calls Save once, with a Game of the given name and
\* an ID no earlier Game has, and returns that Game, or the zero Game with the
\* error Save gave, unchanged; FindOne returns what Get returned, or the zero
\* Game with the error Get gave, unchanged, so a miss reaches the caller as
\* "game not found".
C24_NameOnlyPassThrough ==
    /\ aret.op = "Create" =>
          /\ Len(aret.saves) = 1
          /\ aret.saves[1] = NewGame2(UUIDString(uuidCount), aret.name)
          /\ \A p \in 1 .. Len(heap) - 1 : heap[p].ID # aret.saves[1].ID
          /\ aret.err = aret.repoErr
          /\ aret.game = IF aret.repoErr = NilErr THEN aret.saves[1] ELSE ZeroGame2
    /\ aret.op = "FindOne" =>
          /\ aret.err = aret.repoErr
          /\ aret.err = NilErr => aret.game = View(games, heap)[aret.id]
          /\ aret.err # NilErr => aret.game = ZeroGame2
          /\ (aret.id \notin DOMAIN games /\ backend = "mem") =>
                aret.err = ErrGameNotFound

C24_Witness ==
    /\ aret.op = "FindOne"
    /\ aret.id = UUIDString(1)
    /\ aret.err = ErrGameNotFound
    /\ uuidCount = 2
    /\ UUIDString(2) \in DOMAIN games

C24_WitnessSaveFails ==
    /\ aret.op = "Create"
    /\ aret.err = ErrStorage
    /\ aret.game = ZeroGame2
    /\ DOMAIN games # {}

====
